---- MODULE Spec2Model ----
(***************************************************************************)
(* Model of nrfdfu: the serial upgrade driver (main, read_manifest,       *)
(* zip_file_open) and the BLE transport (ble_enter_dfu, the notification  *)
(* handlers, ble_write_ctrl, ble_read).                                    *)
(*                                                                         *)
(* Spec     : one run of main on one package and one serial port.         *)
(* BleSpec  : one run of ble_enter_dfu followed by control request /      *)
(*            response rounds (ble_write_ctrl, ble_read).                 *)
(***************************************************************************)
EXTENDS Integers, Sequences, FiniteSets, TLC

\* ---------------------------------------------------------------- bounds
\* largest member size (bytes) of the packages that are enumerated
MaxSize == 2
\* most failed Pings a run is followed through (the loop itself has no bound)
MaxPings == 5
\* most control request/response rounds of one BLE session
MaxRounds == 2

\* ------------------------------------------------------- program constants
EXIT_SUCCESS == 0
EXIT_FAILURE == 1
CONNECT_MAX_TRY == 3
RECV_BUF_SIZE == 200

\* value of a size_t that was declared and never assigned
Uninit == -1

VARIABLES
    \* ---- driver (main) ----
    pkg,          \* the environment of the run: archive, manifest, members, port
    pc,           \* position of main
    ret,          \* main's local ret
    zip,          \* zip != NULL
    dat, bin,     \* dat != NULL, bin != NULL
    zf1, zf2,     \* zf1 != NULL, zf2 != NULL
    zs1, zs2,     \* sizes filled in by zip_file_open
    ser_fd,       \* global ser_fd
    serial_inits, \* number of serial_init calls
    pings,        \* number of failed Pings so far
    reqs,         \* DFU requests issued so far, in order
    opens,        \* per ZIP handle: times opened
    closes,       \* per ZIP handle: times closed
    exit_code,    \* <<value returned by main>>, <<>> until it returns
    \* ---- BLE transport ----
    bpc,            \* position of ble_enter_dfu / the request rounds
    ctx,            \* ctx != NULL
    dev,            \* "none", "app" (original address) or "dfutarg" (hopped)
    trynum,
    cp, dp,         \* looked-up characteristic: "null" or the device it is of
    buttonless_noti,
    control_noti,
    recv_buf,       \* [val, len]: last notification copied by the handler
    bl_ind,         \* <<third byte of the last buttonless indication>>, <<>> before one
    cp_subscribed,  \* blz_char_notify_start(cp, ...) succeeded
    enter_ret,      \* what ble_enter_dfu returned: "true", "false", None before
    rounds,         \* control requests written so far
    pending,        \* the device owes a response to the written request
    arrived,        \* responses handed to control_notify_handler since the write
    in_read,        \* responses handed to the handler since ble_read cleared the flag
    rd_ret,         \* what the last ble_read returned: RdNone, RdNull or RdBuf(recv_buf)
    address,        \* the target address given to ble_enter_dfu, octets in text order
    macs,           \* the address handed to the second blz_connect, <<>> before it
    bch,            \* buttonless characteristic: "unknown", "found" or "absent"
    connects,       \* blz_connect calls made by the connect loop
    conn_ok,        \* a blz_connect of the connect loop succeeded
    bl_writes,      \* blz_char_write calls on the buttonless characteristic
    disconnects,    \* blz_disconnect calls
    fail_at         \* position at which ble_enter_dfu returned false, or None

None == "none"

\* results of ble_read: not returned yet, NULL, or the receive buffer
RdNone == [st |-> "none", val |-> 0, len |-> 0]
RdNull == [st |-> "null", val |-> 0, len |-> 0]
RdBuf(buf) == [st |-> "buf", val |-> buf.val, len |-> buf.len]

mainVars == <<pkg, pc, ret, zip, dat, bin, zf1, zf2, zs1, zs2, ser_fd,
              serial_inits, pings, reqs, opens, closes, exit_code>>
bleVars == <<bpc, ctx, dev, trynum, cp, dp, buttonless_noti, control_noti,
             recv_buf, bl_ind, cp_subscribed, enter_ret, rounds, pending,
             arrived, in_read, rd_ret, address, macs, bch, connects, conn_ok,
             bl_writes, disconnects, fail_at>>
vars == <<mainVars, bleVars>>

\* ------------------------------------------------------------ environment
ManifestKinds == {"missing", "unreadable", "badjson", "noapp", "nodat",
                  "nobin", "ok"}
MemberKinds == {"absent", "openfail", "ok"}
SerialFds == {-1, 0, 3}

Packages ==
    [zip_ok : BOOLEAN, manifest : ManifestKinds,
     dat_member : MemberKinds, bin_member : MemberKinds,
     dat_size : 0..MaxSize, bin_size : 0..MaxSize, serial : SerialFds]

Handles == {"zip", "manifest", "zf1", "zf2"}

\* ------------------------------------------------------------ zip helpers
\* zip_file_open: [zf |-> handle != NULL, size |-> value left in *size]
zip_file_open(member, size, old) ==
    CASE member = "absent"   -> [zf |-> FALSE, size |-> old]
      [] member = "openfail" -> [zf |-> FALSE, size |-> size]
      [] member = "ok"       -> [zf |-> TRUE, size |-> size]

\* read_manifest: return value, *dat / *bin non-NULL, and what happened to
\* the manifest member handle
read_manifest(m) ==
    CASE m = "missing"    -> [ret |-> -1, dat |-> FALSE, bin |-> FALSE,
                              opened |-> 0, closed |-> 0]
      [] m = "unreadable" -> [ret |-> -1, dat |-> FALSE, bin |-> FALSE,
                              opened |-> 1, closed |-> 0]
      [] m = "badjson"    -> [ret |-> -1, dat |-> FALSE, bin |-> FALSE,
                              opened |-> 1, closed |-> 1]
      [] m = "noapp"      -> [ret |-> -1, dat |-> FALSE, bin |-> FALSE,
                              opened |-> 1, closed |-> 1]
      [] m = "nodat"      -> [ret |-> -1, dat |-> FALSE, bin |-> TRUE,
                              opened |-> 1, closed |-> 1]
      [] m = "nobin"      -> [ret |-> -1, dat |-> TRUE, bin |-> FALSE,
                              opened |-> 1, closed |-> 1]
      [] m = "ok"         -> [ret |-> 0, dat |-> TRUE, bin |-> TRUE,
                              opened |-> 1, closed |-> 1]

Req(op, arg, payload, size, ok) ==
    [op |-> op, arg |-> arg, payload |-> payload, size |-> size, ok |-> ok]

\* ------------------------------------------------------------------ Init
MainInit ==
    /\ pkg \in Packages
    /\ pc = "zip_open"
    /\ ret = EXIT_FAILURE
    /\ zip = FALSE
    /\ dat = FALSE /\ bin = FALSE
    /\ zf1 = FALSE /\ zf2 = FALSE
    /\ zs1 = Uninit /\ zs2 = Uninit
    /\ ser_fd = -1
    /\ serial_inits = 0
    /\ pings = 0
    /\ reqs = <<>>
    /\ opens = [h \in Handles |-> 0]
    /\ closes = [h \in Handles |-> 0]
    /\ exit_code = <<>>

\* ---------------------------------------------------------------- main
\* zip_open and its NULL check
MainZipOpen ==
    /\ pc = "zip_open"
    /\ IF pkg.zip_ok
         THEN /\ zip' = TRUE
              /\ opens' = [opens EXCEPT !["zip"] = @ + 1]
              /\ pc' = "read_manifest"
         ELSE /\ pc' = "exit"
              /\ UNCHANGED <<zip, opens>>
    /\ UNCHANGED <<pkg, ret, dat, bin, zf1, zf2, zs1, zs2, ser_fd,
                   serial_inits, pings, reqs, closes, exit_code>>
    /\ UNCHANGED bleVars

\* ret = read_manifest(zip, &dat, &bin) and the test that follows it
MainReadManifest ==
    /\ pc = "read_manifest"
    /\ LET r == read_manifest(pkg.manifest) IN
         /\ ret' = r.ret
         /\ dat' = r.dat
         /\ bin' = r.bin
         /\ opens' = [opens EXCEPT !["manifest"] = @ + r.opened]
         /\ closes' = [closes EXCEPT !["manifest"] = @ + r.closed]
         /\ pc' = IF r.ret < 0 \/ ~r.dat \/ ~r.bin THEN "exit"
                  ELSE "open_members"
    /\ UNCHANGED <<pkg, zip, zf1, zf2, zs1, zs2, ser_fd, serial_inits,
                   pings, reqs, exit_code>>
    /\ UNCHANGED bleVars

\* whether main goes to exit after the two zip_file_open calls
\* variant: only the init member is tested
members_missing_OnlyInit(h1, h2) == ~h1

\* if (zf1 == NULL || zf2 == NULL) goto exit;
members_missing(h1, h2) == ~h1 \/ ~h2

\* the two zip_file_open calls and the test that follows them
MainOpenMembers ==
    /\ pc = "open_members"
    /\ LET o1 == zip_file_open(pkg.dat_member, pkg.dat_size, zs1)
           o2 == zip_file_open(pkg.bin_member, pkg.bin_size, zs2)
       IN
         /\ zf1' = o1.zf
         /\ zf2' = o2.zf
         /\ zs1' = o1.size
         /\ zs2' = o2.size
         /\ opens' = [opens EXCEPT !["zf1"] = @ + (IF o1.zf THEN 1 ELSE 0),
                                   !["zf2"] = @ + (IF o2.zf THEN 1 ELSE 0)]
         /\ pc' = IF members_missing(o1.zf, o2.zf) THEN "exit"
                  ELSE "serial_init"
    /\ UNCHANGED <<pkg, ret, zip, dat, bin, ser_fd, serial_inits, pings,
                   reqs, closes, exit_code>>
    /\ UNCHANGED bleVars

\* ser_fd = serial_init(conf.serport) and the test that follows it
MainSerialInit ==
    /\ pc = "serial_init"
    /\ ser_fd' = pkg.serial
    /\ serial_inits' = serial_inits + 1
    /\ pc' = IF pkg.serial <= 0 THEN "exit" ELSE "ping"
    /\ UNCHANGED <<pkg, ret, zip, dat, bin, zf1, zf2, zs1, zs2, pings,
                   reqs, opens, closes, exit_code>>
    /\ UNCHANGED bleVars

\* one turn of do { ret = dfu_ping(); if (!ret) sleep(1); } while (!ret);
MainPing ==
    /\ pc = "ping"
    /\ \E ok \in BOOLEAN :
         /\ ~ok => pings < MaxPings
         /\ reqs' = Append(reqs, Req("Ping", 0, None, 0, ok))
         /\ ret' = IF ok THEN 1 ELSE 0
         /\ pings' = IF ok THEN pings ELSE pings + 1
         /\ pc' = IF ok THEN "set_prn" ELSE "ping"
    /\ UNCHANGED <<pkg, zip, dat, bin, zf1, zf2, zs1, zs2, ser_fd,
                   serial_inits, opens, closes, exit_code>>
    /\ UNCHANGED bleVars

\* dfu_set_packet_receive_notification(0); the result is not looked at
MainSetPrn ==
    /\ pc = "set_prn"
    /\ \E ok \in BOOLEAN :
         reqs' = Append(reqs, Req("SetPRN", 0, None, 0, ok))
    /\ pc' = "get_mtu"
    /\ UNCHANGED <<pkg, ret, zip, dat, bin, zf1, zf2, zs1, zs2, ser_fd,
                   serial_inits, pings, opens, closes, exit_code>>
    /\ UNCHANGED bleVars

\* dfu_get_serial_mtu(); the result is not looked at
MainGetMtu ==
    /\ pc = "get_mtu"
    /\ \E ok \in BOOLEAN :
         reqs' = Append(reqs, Req("MtuGet", 0, None, 0, ok))
    /\ pc' = "write_init"
    /\ UNCHANGED <<pkg, ret, zip, dat, bin, zf1, zf2, zs1, zs2, ser_fd,
                   serial_inits, pings, opens, closes, exit_code>>
    /\ UNCHANGED bleVars

\* variant: the firmware object is written in the place of the init object
MainWriteInit_Swapped ==
    /\ pc = "write_init"
    /\ \E ok \in BOOLEAN :
         reqs' = Append(reqs, Req("ObjWrite", 2, "zf2", zs2, ok))
    /\ pc' = "write_fw"
    /\ UNCHANGED <<pkg, ret, zip, dat, bin, zf1, zf2, zs1, zs2, ser_fd,
                   serial_inits, pings, opens, closes, exit_code>>
    /\ UNCHANGED bleVars

\* dfu_object_write_procedure(1, zf1, zs1); the result is not looked at
MainWriteInit ==
    /\ pc = "write_init"
    /\ \E ok \in BOOLEAN :
         reqs' = Append(reqs, Req("ObjWrite", 1, "zf1", zs1, ok))
    /\ pc' = "write_fw"
    /\ UNCHANGED <<pkg, ret, zip, dat, bin, zf1, zf2, zs1, zs2, ser_fd,
                   serial_inits, pings, opens, closes, exit_code>>
    /\ UNCHANGED bleVars

\* dfu_object_write_procedure(2, zf2, zs2); ret = EXIT_SUCCESS;
MainWriteFw ==
    /\ pc = "write_fw"
    /\ \E ok \in BOOLEAN :
         reqs' = Append(reqs, Req("ObjWrite", 2, "zf2", zs2, ok))
    /\ ret' = EXIT_SUCCESS
    /\ pc' = "exit"
    /\ UNCHANGED <<pkg, zip, dat, bin, zf1, zf2, zs1, zs2, ser_fd,
                   serial_inits, pings, opens, closes, exit_code>>
    /\ UNCHANGED bleVars

\* the exit: label: free, close what is open, serial_fini, return ret
MainExit ==
    /\ pc = "exit"
    /\ closes' = [closes EXCEPT
                    !["zf1"] = @ + (IF zf1 THEN 1 ELSE 0),
                    !["zf2"] = @ + (IF zf2 THEN 1 ELSE 0),
                    !["zip"] = @ + (IF zip THEN 1 ELSE 0)]
    /\ exit_code' = <<ret>>
    /\ pc' = "done"
    /\ UNCHANGED <<pkg, ret, zip, dat, bin, zf1, zf2, zs1, zs2, ser_fd,
                   serial_inits, pings, reqs, opens>>
    /\ UNCHANGED bleVars

MainNext ==
    \/ MainZipOpen
    \/ MainReadManifest
    \/ MainOpenMembers
    \/ MainSerialInit
    \/ MainPing
    \/ MainSetPrn
    \/ MainGetMtu
    \/ MainWriteInit
    \/ MainWriteFw
    \/ MainExit

\* ================================================================= BLE
\* third byte of a buttonless indication: 0x01 is success, 0x02 a failure code
IndicationBytes == {1, 2}
\* what a control notification carries: a response and its length in bytes
ResponseVals == {1, 2}
NotiLens == {3, 244}
\* how many control notifications the device sends for one request
MaxNotis == 2

\* octet values the first and the last octet of the target address are drawn
\* from; 255 is the value that wraps
OctetSamples == {1, 255}
Addresses == {<<a, 34, 51, 68, 85, f>> : a \in OctetSamples, f \in OctetSamples}

\* blz_string_to_mac_s: "o1:o2:o3:o4:o5:o6" is stored with o1 in mac[5] and o6
\* in mac[0]
blz_string_to_mac_s(str) == [i \in 0..5 |-> str[6 - i]]

\* blz_mac_to_string_s: prints mac[5] first and mac[0] last
blz_mac_to_string_s(mac) == [i \in 1..6 |-> mac[6 - i]]

\* variant: the octet at index 5 is the one increased
mac_increase_Index5(mac) == [mac EXCEPT ![5] = (@ + 1) % 256]

\* mac[0]++ on a uint8_t
mac_increase(mac) == [mac EXCEPT ![0] = (@ + 1) % 256]

\* the address of DfuTarg as ble_enter_dfu computes it
dfutarg_address(addr) ==
    blz_mac_to_string_s(mac_increase(blz_string_to_mac_s(addr)))

BleInit ==
    /\ bpc = "init"
    /\ ctx = FALSE
    /\ dev = "none"
    /\ trynum = 0
    /\ cp = "null" /\ dp = "null"
    /\ buttonless_noti = FALSE
    /\ control_noti = FALSE
    /\ recv_buf = [val |-> 0, len |-> 0]
    /\ bl_ind = <<>>
    /\ cp_subscribed = FALSE
    /\ enter_ret = None
    /\ rounds = 0
    /\ pending = 0
    /\ arrived = 0
    /\ in_read = 0
    /\ rd_ret = RdNone
    /\ address \in Addresses
    /\ macs = <<>>
    /\ bch = "unknown"
    /\ connects = 0
    /\ conn_ok = FALSE
    /\ bl_writes = 0
    /\ disconnects = 0
    /\ fail_at = None

\* return b; out of ble_enter_dfu
EnterReturn(b) ==
    /\ enter_ret' = IF b THEN "true" ELSE "false"
    /\ fail_at' = IF b THEN fail_at ELSE bpc
    /\ bpc' = IF b THEN "idle" ELSE "failed"

\* ctx = blz_init(interface)
BleInitCtx ==
    /\ bpc = "init"
    /\ \E ok \in BOOLEAN :
         /\ ctx' = ok
         /\ IF ok THEN bpc' = "connect" /\ UNCHANGED <<enter_ret, fail_at>>
                  ELSE EnterReturn(FALSE)
    /\ trynum' = 0
    /\ UNCHANGED <<dev, cp, dp, buttonless_noti, control_noti, recv_buf,
                   bl_ind, cp_subscribed, rounds, pending, arrived, in_read,
                   rd_ret>>
    /\ UNCHANGED <<address, macs, bch, connects, conn_ok, bl_writes, disconnects>>
    /\ UNCHANGED mainVars

\* variant: trynum is compared before it is increased (trynum++)
connect_again_PostIncrement(d, t) == d = "none" /\ t < CONNECT_MAX_TRY

\* the connect loop goes round again: dev == NULL && ++trynum < CONNECT_MAX_TRY
connect_again(d, t) == d = "none" /\ t + 1 < CONNECT_MAX_TRY

\* one turn of the connect loop, and the give-up test when the loop ends
BleConnect ==
    /\ bpc = "connect"
    /\ \E ok \in BOOLEAN :
         LET d == IF ok THEN "app" ELSE "none"
             t == IF d = "none" THEN trynum + 1 ELSE trynum
         IN
           /\ dev' = d
           /\ trynum' = t
           /\ connects' = connects + 1
           /\ conn_ok' = ok
           /\ IF connect_again(d, trynum)
                THEN bpc' = "connect" /\ UNCHANGED <<enter_ret, fail_at>>
                ELSE IF t >= CONNECT_MAX_TRY
                       THEN EnterReturn(FALSE)
                       ELSE bpc' = "get_serv" /\ UNCHANGED <<enter_ret, fail_at>>
    /\ UNCHANGED <<ctx, cp, dp, buttonless_noti, control_noti, recv_buf,
                   bl_ind, cp_subscribed, rounds, pending, arrived, in_read,
                   rd_ret>>
    /\ UNCHANGED <<address, macs, bch, bl_writes, disconnects>>
    /\ UNCHANGED mainVars

\* srv = blz_get_serv_from_uuid(dev, DFU_SERVICE_UUID) on the first connection
BleGetServ ==
    /\ bpc = "get_serv"
    /\ \E found \in BOOLEAN :
         IF found THEN bpc' = "get_bch" /\ UNCHANGED <<enter_ret, fail_at>>
                  ELSE EnterReturn(FALSE)
    /\ UNCHANGED <<ctx, dev, trynum, cp, dp, buttonless_noti, control_noti,
                   recv_buf, bl_ind, cp_subscribed, rounds, pending, arrived,
                   in_read, rd_ret>>
    /\ UNCHANGED <<address, macs, bch, connects, conn_ok, bl_writes, disconnects>>
    /\ UNCHANGED mainVars

\* variant: one of the two characteristics is enough
dfutarg_chars_found_Either(d, c) == d # "null" \/ c # "null"

\* if (dp != NULL && cp != NULL) goto dfutarg_found;
dfutarg_chars_found(d, c) == d # "null" /\ c # "null"

\* bch lookup; without it the DfuTarg characteristics are looked up directly
BleGetBch ==
    /\ bpc = "get_bch"
    /\ \E bf \in BOOLEAN, dpf \in BOOLEAN, cpf \in BOOLEAN :
         IF bf
           THEN /\ bch' = "found"
                /\ bpc' = "indicate_start"
                /\ UNCHANGED <<dp, cp, enter_ret, fail_at>>
           ELSE /\ bch' = "absent"
                /\ dp' = IF dpf THEN dev ELSE "null"
                /\ cp' = IF cpf THEN dev ELSE "null"
                /\ IF dfutarg_chars_found(dp', cp')
                     THEN bpc' = "notify_start" /\ UNCHANGED <<enter_ret, fail_at>>
                     ELSE EnterReturn(FALSE)
    /\ UNCHANGED <<ctx, dev, trynum, buttonless_noti, control_noti,
                   recv_buf, bl_ind, cp_subscribed, rounds, pending, arrived,
                   in_read, rd_ret>>
    /\ UNCHANGED <<address, macs, connects, conn_ok, bl_writes, disconnects>>
    /\ UNCHANGED mainVars

\* blz_char_indicate_start(bch, buttonless_notify_handler, NULL)
BleIndicateStart ==
    /\ bpc = "indicate_start"
    /\ \E ok \in BOOLEAN :
         IF ok THEN bpc' = "bl_write" /\ UNCHANGED <<enter_ret, fail_at>>
               ELSE EnterReturn(FALSE)
    /\ UNCHANGED <<ctx, dev, trynum, cp, dp, buttonless_noti, control_noti,
                   recv_buf, bl_ind, cp_subscribed, rounds, pending, arrived,
                   in_read, rd_ret>>
    /\ UNCHANGED <<address, macs, bch, connects, conn_ok, bl_writes, disconnects>>
    /\ UNCHANGED mainVars

\* blz_char_write(bch, &buf, 1) with buf = 0x01
BleButtonlessWrite ==
    /\ bpc = "bl_write"
    /\ bl_writes' = bl_writes + 1
    /\ \E ok \in BOOLEAN :
         IF ok THEN bpc' = "bl_wait" /\ UNCHANGED <<enter_ret, fail_at>>
               ELSE EnterReturn(FALSE)
    /\ UNCHANGED <<ctx, dev, trynum, cp, dp, buttonless_noti, control_noti,
                   recv_buf, bl_ind, cp_subscribed, rounds, pending, arrived,
                   in_read, rd_ret>>
    /\ UNCHANGED <<address, macs, bch, connects, conn_ok, disconnects>>
    /\ UNCHANGED mainVars

\* buttonless_notify_handler, run by the event loop of blz_loop_timeout
ButtonlessNotify ==
    /\ bpc = "bl_wait"
    /\ ~buttonless_noti
    /\ \E b3 \in IndicationBytes : bl_ind' = <<b3>>
    /\ buttonless_noti' = TRUE
    /\ UNCHANGED <<bpc, ctx, dev, trynum, cp, dp, control_noti, recv_buf,
                   cp_subscribed, enter_ret, rounds, pending, arrived,
                   in_read, rd_ret>>
    /\ UNCHANGED <<address, macs, bch, connects, conn_ok, bl_writes, disconnects, fail_at>>
    /\ UNCHANGED mainVars

\* blz_loop_timeout(ctx, &buttonless_noti, 10000000) returns: the flag is set
\* or the time is up; its result is not looked at
BleButtonlessWaitEnd ==
    /\ bpc = "bl_wait"
    /\ bpc' = "disconnect"
    /\ UNCHANGED <<ctx, dev, trynum, cp, dp, buttonless_noti, control_noti,
                   recv_buf, bl_ind, cp_subscribed, enter_ret, rounds,
                   pending, arrived, in_read, rd_ret>>
    /\ UNCHANGED <<address, macs, bch, connects, conn_ok, bl_writes, disconnects, fail_at>>
    /\ UNCHANGED mainVars

\* blz_disconnect(dev)
BleDisconnect ==
    /\ bpc = "disconnect"
    /\ dev' = "none"
    /\ disconnects' = disconnects + 1
    /\ bpc' = "reconnect"
    /\ UNCHANGED <<ctx, trynum, cp, dp, buttonless_noti, control_noti,
                   recv_buf, bl_ind, cp_subscribed, enter_ret, rounds,
                   pending, arrived, in_read, rd_ret>>
    /\ UNCHANGED <<address, macs, bch, connects, conn_ok, bl_writes, fail_at>>
    /\ UNCHANGED mainVars

\* dev = blz_connect(ctx, macs, atype) to the hopped address
BleReconnect ==
    /\ bpc = "reconnect"
    /\ macs' = dfutarg_address(address)
    /\ \E ok \in BOOLEAN :
         /\ dev' = IF ok THEN "dfutarg" ELSE "none"
         /\ IF ok THEN bpc' = "get_serv2" /\ UNCHANGED <<enter_ret, fail_at>>
                  ELSE EnterReturn(FALSE)
    /\ UNCHANGED <<ctx, trynum, cp, dp, buttonless_noti, control_noti,
                   recv_buf, bl_ind, cp_subscribed, rounds, pending, arrived,
                   in_read, rd_ret>>
    /\ UNCHANGED <<address, bch, connects, conn_ok, bl_writes, disconnects>>
    /\ UNCHANGED mainVars

\* srv = blz_get_serv_from_uuid(dev, DFU_SERVICE_UUID) on the reconnected device
BleGetServ2 ==
    /\ bpc = "get_serv2"
    /\ \E found \in BOOLEAN :
         IF found THEN bpc' = "lookup2" /\ UNCHANGED <<enter_ret, fail_at>>
                  ELSE EnterReturn(FALSE)
    /\ UNCHANGED <<ctx, dev, trynum, cp, dp, buttonless_noti, control_noti,
                   recv_buf, bl_ind, cp_subscribed, rounds, pending, arrived,
                   in_read, rd_ret>>
    /\ UNCHANGED <<address, macs, bch, connects, conn_ok, bl_writes, disconnects>>
    /\ UNCHANGED mainVars

\* variant: the handle that was found is left in place
lookup2_failed_KeepFound(h) == h

\* dp = cp = NULL; after a failed lookup
lookup2_failed(h) == "null"

\* dp / cp lookup on the reconnected device
BleLookup2 ==
    /\ bpc = "lookup2"
    /\ \E dpf \in BOOLEAN, cpf \in BOOLEAN :
         IF ~dpf \/ ~cpf
           THEN /\ dp' = lookup2_failed(IF dpf THEN dev ELSE "null")
                /\ cp' = lookup2_failed(IF cpf THEN dev ELSE "null")
                /\ EnterReturn(FALSE)
           ELSE /\ dp' = dev /\ cp' = dev
                /\ bpc' = "notify_start" /\ UNCHANGED <<enter_ret, fail_at>>
    /\ UNCHANGED <<ctx, dev, trynum, buttonless_noti, control_noti,
                   recv_buf, bl_ind, cp_subscribed, rounds, pending, arrived,
                   in_read, rd_ret>>
    /\ UNCHANGED <<address, macs, bch, connects, conn_ok, bl_writes, disconnects>>
    /\ UNCHANGED mainVars

\* dfutarg_found: blz_char_notify_start(cp, control_notify_handler, NULL)
BleNotifyStart ==
    /\ bpc = "notify_start"
    /\ \E ok \in BOOLEAN :
         /\ cp_subscribed' = ok
         /\ EnterReturn(ok)
    /\ UNCHANGED <<ctx, dev, trynum, cp, dp, buttonless_noti, control_noti,
                   recv_buf, bl_ind, rounds, pending, arrived, in_read,
                   rd_ret>>
    /\ UNCHANGED <<address, macs, bch, connects, conn_ok, bl_writes, disconnects>>
    /\ UNCHANGED mainVars

\* ---------------------------------------------- control request / response
\* what ble_write_ctrl does to the flag control_noti before writing: nothing
write_ctrl_flag(noti) == noti

\* ble_write_ctrl: blz_char_write(cp, req, len). The device then sends n
\* notifications in answer; the BLE stack may hand them to the handler from
\* inside any later call into the library.
BleWriteCtrl ==
    /\ bpc = "idle"
    /\ rounds < MaxRounds
    /\ control_noti' = write_ctrl_flag(control_noti)
    /\ \E ok \in BOOLEAN, n \in 0..MaxNotis :
         /\ pending' = IF ok THEN n ELSE 0
         /\ bpc' = IF ok THEN "written" ELSE "idle"
    /\ rounds' = rounds + 1
    /\ arrived' = 0
    /\ in_read' = 0
    /\ rd_ret' = RdNone
    /\ UNCHANGED <<ctx, dev, trynum, cp, dp, buttonless_noti, recv_buf,
                   bl_ind, cp_subscribed, enter_ret>>
    /\ UNCHANGED <<address, macs, bch, connects, conn_ok, bl_writes, disconnects, fail_at>>
    /\ UNCHANGED mainVars

\* control_notify_handler: memcpy(recv_buf, data, len); control_noti = true.
\* Inside blz_loop_timeout the loop looks at the flag after every event.
ControlNotify ==
    /\ cp_subscribed
    /\ pending > 0
    /\ \/ bpc = "written"
       \/ bpc = "waiting" /\ ~control_noti
    /\ \E v \in ResponseVals, l \in NotiLens :
         recv_buf' = [val |-> v, len |-> l]
    /\ control_noti' = TRUE
    /\ pending' = pending - 1
    /\ arrived' = arrived + 1
    /\ in_read' = IF bpc = "waiting" THEN in_read + 1 ELSE in_read
    /\ UNCHANGED <<bpc, ctx, dev, trynum, cp, dp, buttonless_noti, bl_ind,
                   cp_subscribed, enter_ret, rounds, rd_ret>>
    /\ UNCHANGED <<address, macs, bch, connects, conn_ok, bl_writes, disconnects, fail_at>>
    /\ UNCHANGED mainVars

\* ble_read, first statement: control_noti = false
BleReadClear ==
    /\ bpc = "written"
    /\ control_noti' = FALSE
    /\ in_read' = 0
    /\ bpc' = "waiting"
    /\ UNCHANGED <<ctx, dev, trynum, cp, dp, buttonless_noti, recv_buf,
                   bl_ind, cp_subscribed, enter_ret, rounds, pending,
                   arrived, rd_ret>>
    /\ UNCHANGED <<address, macs, bch, connects, conn_ok, bl_writes, disconnects, fail_at>>
    /\ UNCHANGED mainVars

\* variant: the buffer is returned whether or not the flag is set
ble_read_result_Always(noti, buf) == RdBuf(buf)

\* ble_read's result once blz_loop_timeout has returned
ble_read_result(noti, buf) == IF noti = FALSE THEN RdNull ELSE RdBuf(buf)

\* blz_loop_timeout(ctx, &control_noti, 10000000) returns (flag set or time
\* up) and ble_read returns
BleReadEnd ==
    /\ bpc = "waiting"
    /\ rd_ret' = ble_read_result(control_noti, recv_buf)
    /\ bpc' = "idle"
    /\ UNCHANGED <<ctx, dev, trynum, cp, dp, buttonless_noti, control_noti,
                   recv_buf, bl_ind, cp_subscribed, enter_ret, rounds,
                   pending, arrived, in_read>>
    /\ UNCHANGED <<address, macs, bch, connects, conn_ok, bl_writes, disconnects, fail_at>>
    /\ UNCHANGED mainVars

BleNext ==
    \/ BleInitCtx
    \/ BleConnect
    \/ BleGetServ
    \/ BleGetBch
    \/ BleIndicateStart
    \/ BleButtonlessWrite
    \/ ButtonlessNotify
    \/ BleButtonlessWaitEnd
    \/ BleDisconnect
    \/ BleReconnect
    \/ BleGetServ2
    \/ BleLookup2
    \/ BleNotifyStart
    \/ BleWriteCtrl
    \/ ControlNotify
    \/ BleReadClear
    \/ BleReadEnd

\* ------------------------------------------------------- specifications
\* the part that is not running stays as constructed
MainParked ==
    /\ pkg = [zip_ok |-> TRUE, manifest |-> "ok", dat_member |-> "ok",
              bin_member |-> "ok", dat_size |-> 1, bin_size |-> 1,
              serial |-> 3]
    /\ pc = "zip_open"
    /\ ret = EXIT_FAILURE
    /\ zip = FALSE
    /\ dat = FALSE /\ bin = FALSE
    /\ zf1 = FALSE /\ zf2 = FALSE
    /\ zs1 = Uninit /\ zs2 = Uninit
    /\ ser_fd = -1
    /\ serial_inits = 0
    /\ pings = 0
    /\ reqs = <<>>
    /\ opens = [h \in Handles |-> 0]
    /\ closes = [h \in Handles |-> 0]
    /\ exit_code = <<>>

Init == MainInit /\ BleInit
Next == MainNext
Spec == Init /\ [][Next]_vars

BleSpecInit == MainParked /\ BleInit
BleSpec == BleSpecInit /\ [][BleNext]_vars
\* blz_loop_timeout returns after its timeout at the latest
BleFairSpec == BleSpec /\ WF_vars(BleReadEnd)

\* ================================================================ claims
IsPing(r) == r.op = "Ping"
Steps == {i \in 1..Len(reqs) : ~IsPing(reqs[i])}
PingSucceeded == \E i \in 1..Len(reqs) : IsPing(reqs[i]) /\ reqs[i].ok
SomeStepFailed == \E i \in Steps : ~reqs[i].ok
AllStepsOk ==
    /\ Cardinality(Steps) = 4
    /\ \A i \in Steps : reqs[i].ok

\* C1 (as stated): once a Ping has succeeded, main returns 0 only if SetPRN,
\* the MTU query and both object transfers succeeded, and returns 1 as soon
\* as one of them failed.
C1_ExitCodeReflectsSteps ==
    (pc = "done" /\ PingSucceeded) =>
        /\ (exit_code = <<EXIT_SUCCESS>> => AllStepsOk)
        /\ (SomeStepFailed => exit_code = <<EXIT_FAILURE>>)

\* C2 (as stated): an object write of type 2 (firmware) is issued only after
\* an object write of type 1 (init) that succeeded.
C2_FirmwareOnlyAfterInitOk ==
    \A i \in 1..Len(reqs) :
        (reqs[i].op = "ObjWrite" /\ reqs[i].arg = 2) =>
            \E j \in 1..(i - 1) :
                reqs[j].op = "ObjWrite" /\ reqs[j].arg = 1 /\ reqs[j].ok

\* C3 (as stated): at most 3 Pings are sent in a run, and none after a Ping
\* that succeeded.
C3_PingsBounded ==
    /\ Cardinality({i \in 1..Len(reqs) : IsPing(reqs[i])}) <= 3
    /\ \A i \in 1..Len(reqs) :
           (IsPing(reqs[i]) /\ reqs[i].ok) =>
               \A j \in (i + 1)..Len(reqs) : ~IsPing(reqs[j])

\* the requests that follow the Pings, in the order main issues them
StepOrder ==
    << [op |-> "SetPRN", arg |-> 0, payload |-> None],
       [op |-> "MtuGet", arg |-> 0, payload |-> None],
       [op |-> "ObjWrite", arg |-> 1, payload |-> "zf1"],
       [op |-> "ObjWrite", arg |-> 2, payload |-> "zf2"] >>

\* number of leading Pings of the request log
RECURSIVE LeadingPings(_)
LeadingPings(s) ==
    IF s = <<>> \/ ~IsPing(Head(s)) THEN 0 ELSE 1 + LeadingPings(Tail(s))

\* C4: the request log is failed Pings, then one successful Ping, then a
\* prefix of SetPRN(0), MTU query, object write 1 (init payload), object write
\* 2 (firmware payload); a run that returns after a successful Ping has issued
\* all four, each once.
C4_FixedRequestOrder ==
    LET n == LeadingPings(reqs)
        k == Len(reqs) - n
    IN
      /\ \A i \in 1..(n - 1) : ~reqs[i].ok
      /\ k > 0 => (n > 0 /\ reqs[n].ok)
      /\ pc = "ping" => \A i \in 1..n : ~reqs[i].ok
      /\ k <= 4
      /\ \A i \in 1..k :
           /\ reqs[n + i].op = StepOrder[i].op
           /\ reqs[n + i].arg = StepOrder[i].arg
           /\ reqs[n + i].payload = StepOrder[i].payload
      /\ (pc = "done" /\ PingSucceeded) => k = 4
      /\ pc \in {"set_prn", "get_mtu", "write_init", "write_fw"} =>
           (n > 0 /\ reqs[n].ok)

\* C4 witness: a run that pinged twice (one failure) and issued all four steps
C4_Witness ==
    /\ pc = "done"
    /\ Len(reqs) = 6
    /\ ~reqs[1].ok /\ reqs[2].ok
    /\ reqs[6].op = "ObjWrite" /\ reqs[6].payload = "zf2"

\* ble_enter_dfu has disconnected from the application
Hopped == bpc \in {"reconnect", "get_serv2", "lookup2"} \/ dev = "dfutarg"

\* C5 (as stated): ble_enter_dfu disconnects and reconnects only after an
\* indication whose third byte is 0x01 was received.
C5_HopOnlyAfterConfirmation ==
    Hopped => (buttonless_noti /\ bl_ind = <<1>>)

\* C6 (as stated): a response handed to the handler after ble_write_ctrl was
\* called is returned by the ble_read that follows: that ble_read does not
\* return NULL.
C6_ResponseNeverLost ==
    rd_ret = RdNull => arrived = 0

\* C7, safety part: ble_read returns the receive buffer exactly when a
\* notification was handed to the handler after it cleared the flag and before
\* its wait ended, and NULL otherwise.
C7_ReadResult ==
    rd_ret # RdNone =>
        /\ (rd_ret.st = "buf" <=> in_read > 0)
        /\ (rd_ret.st = "null" <=> in_read = 0)
        /\ rd_ret.st = "buf" => rd_ret = RdBuf(recv_buf)

\* C7: ble_read always returns, and C7_ReadResult holds of what it returns.
C7_ReadReturns ==
    /\ [] C7_ReadResult
    /\ (bpc = "waiting") ~> (bpc = "idle")

\* C7 witness: a ble_read returned the buffer for a notification that came in
\* during its wait, after an earlier one had come in before the wait
C7_Witness ==
    /\ bpc = "idle"
    /\ rd_ret.st = "buf"
    /\ arrived = 2
    /\ in_read = 1

\* C8 (as stated): when main returns without having issued a DFU request, it
\* returns exactly 1.
C8_EarlyExitIsOne ==
    (pc = "done" /\ reqs = <<>>) => exit_code = <<EXIT_FAILURE>>

\* the package faults C9 lists
PackageBroken ==
    \/ ~pkg.zip_ok
    \/ pkg.manifest \in {"missing", "noapp", "nodat", "nobin"}
    \/ pkg.dat_member = "absent"
    \/ pkg.bin_member = "absent"

\* C9: with the archive not opening, the manifest missing or without
\* dat_file / bin_file, or a referenced member absent, serial_init is never
\* called and no DFU request is issued.
C9_NoTransportOnBrokenPackage ==
    PackageBroken => (serial_inits = 0 /\ reqs = <<>> /\ ser_fd = -1)

\* C9 witness: main has returned on a package whose init member opened and
\* whose firmware member is absent
C9_Witness ==
    /\ pc = "done"
    /\ pkg.bin_member = "absent"
    /\ opens["zf1"] = 1
    /\ serial_inits = 0

\* C10 (as stated): a package whose init member is empty never gets as far as
\* serial_init, and no object write is issued with size 0 for the init object.
C10_EmptyInitRejected ==
    /\ (pkg.dat_member = "ok" /\ pkg.dat_size = 0) => serial_inits = 0
    /\ \A i \in 1..Len(reqs) :
           (reqs[i].op = "ObjWrite" /\ reqs[i].arg = 1) => reqs[i].size # 0

\* ------------------------------------------------------------ C11 .. C17
ReturnedTrue == bpc \in {"idle", "written", "waiting"}
ReturnedFalse == bpc = "failed"

\* C11 (as stated): without a Buttonless characteristic ble_enter_dfu writes
\* nothing to one and neither disconnects nor reconnects; with Control and
\* Data both found it subscribes on the current connection and returns true,
\* with one of them missing it returns false.
C11_DirectPathReturnsTrue ==
    (bch = "absent" /\ (ReturnedTrue \/ ReturnedFalse)) =>
        /\ bl_writes = 0 /\ disconnects = 0 /\ macs = <<>>
        /\ IF cp # "null" /\ dp # "null"
             THEN ReturnedTrue /\ cp_subscribed /\ cp = dev /\ dev = "app"
             ELSE ReturnedFalse

\* C11 (amended): as above, but with Control and Data both found it returns
\* true exactly when the subscription to control notifications succeeded, and
\* false (from the subscription step) when it failed.
C11_DirectPath ==
    (bch = "absent" /\ (ReturnedTrue \/ ReturnedFalse)) =>
        /\ bl_writes = 0 /\ disconnects = 0 /\ macs = <<>>
        /\ IF cp # "null" /\ dp # "null"
             THEN /\ cp = dev /\ dp = dev /\ dev = "app"
                  /\ ReturnedTrue <=> cp_subscribed
                  /\ ReturnedFalse => fail_at = "notify_start"
             ELSE ReturnedFalse /\ fail_at = "get_bch"

\* C11 witness: returned true on the first connection, no buttonless
\* characteristic
C11_Witness ==
    /\ bch = "absent"
    /\ ReturnedTrue
    /\ dev = "app" /\ cp = "app" /\ dp = "app"
    /\ cp_subscribed

C13_HandlesClosedOnce ==
    /\ \A h \in Handles : closes[h] <= opens[h]
    /\ pc = "done" => \A h \in Handles : closes[h] = opens[h]

\* C14 (as stated): a control notification either comes in while a ble_read
\* waits on an empty slot, or it is discarded: it changes neither recv_buf nor
\* the flag.
C14_SlotFilledOnlyWhenAwaited ==
    [][arrived' = arrived + 1 =>
          \/ bpc = "waiting" /\ ~control_noti
          \/ UNCHANGED <<recv_buf, control_noti>>]_vars

\* C15: the connect loop makes at most CONNECT_MAX_TRY attempts and none after
\* a success; ble_enter_dfu gives up, before any GATT operation, exactly when
\* all CONNECT_MAX_TRY attempts failed.
C15_ConnectAttempts ==
    /\ connects <= CONNECT_MAX_TRY
    /\ bpc = "connect" => (~conn_ok /\ connects = trynum)
    /\ (ctx /\ bpc \notin {"init", "connect"}) =>
         IF conn_ok
           THEN connects \in 1..CONNECT_MAX_TRY /\ fail_at # "connect"
           ELSE /\ connects = CONNECT_MAX_TRY
                /\ ReturnedFalse /\ fail_at = "connect"
                /\ bch = "unknown" /\ bl_writes = 0 /\ ~cp_subscribed

\* C15 witness: the third attempt connected and ble_enter_dfu returned true
C15_Witness ==
    /\ connects = CONNECT_MAX_TRY
    /\ conn_ok
    /\ ReturnedTrue

\* C16: after ble_enter_dfu returned true, cp and dp are non-NULL handles of
\* the connected device and the control subscription succeeded; after it
\* returned false from the lookup on the reconnected device, both are NULL.
C16_HandlesOnReturn ==
    /\ ReturnedTrue =>
         /\ cp # "null" /\ dp # "null"
         /\ dev # "none" /\ cp = dev /\ dp = dev
         /\ cp_subscribed
    /\ (ReturnedFalse /\ fail_at = "lookup2") => (cp = "null" /\ dp = "null")

\* C16 witness: returned true after the hop to DfuTarg
C16_Witness ==
    /\ ReturnedTrue
    /\ dev = "dfutarg"
    /\ cp = "dfutarg" /\ dp = "dfutarg"

\* C17 (as stated): the handler copies at most RECV_BUF_SIZE bytes into
\* recv_buf.
C17_CopyWithinBuffer ==
    recv_buf.len <= RECV_BUF_SIZE
====
